---- MODULE Spec2Model ----
(***************************************************************************)
(* A model of @rowanmanning/rpc (lib/rpc.js): the method registry, the     *)
(* call validator, the call dispatcher and the batch dispatcher.           *)
(*                                                                         *)
(* JavaScript values are records tagged by their type (field t); a plain   *)
(* object carries its own properties as a function from key to value.      *)
(* A promise is a record whose state is pending, resolved or rejected.     *)
(***************************************************************************)
EXTENDS Integers, Sequences, FiniteSets, TLC

\* Longest batch array the model dispatches.
MaxBatch == 2

-----------------------------------------------------------------------------
(* JavaScript values                                                       *)

Undefined == [t |-> "undefined"]

Null == [t |-> "null"]

Num(n) == [t |-> "number", v |-> n]

Str(s) == [t |-> "string", v |-> s]

Bool(b) == [t |-> "boolean", v |-> b]

Arr(s) == [t |-> "array", v |-> s]

Obj(f) == [t |-> "object", v |-> f]

Fn(h) == [t |-> "function", v |-> h]

\* An object literal with no own property.
NoProps == [k \in {} |-> Undefined]

\* ToBoolean: what `if (x)`, `x || y`, `x && y` and `x ? a : b` test.
Truthy(x) ==
    CASE x.t = "undefined" -> FALSE
      [] x.t = "null" -> FALSE
      [] x.t = "number" -> x.v # 0
      [] x.t = "string" -> x.v # ""
      [] x.t = "boolean" -> x.v
      [] OTHER -> TRUE

\* A property read x.k of a value that is neither null nor undefined; of the
\* keys read by the library (id, method, params, code, message, data) none is
\* inherited by a string, a number, an array or a plain object.
Get(x, k) ==
    IF x.t = "object" /\ k \in DOMAIN x.v THEN x.v[k] ELSE Undefined

\* A property read of null or undefined raises a TypeError.
ReadThrows(x) == x.t \in {"null", "undefined"}

WhiteSpace == {" ", "\t", "\n"}

RECURSIVE TrimStart(_)
TrimStart(s) ==
    IF Len(s) = 0 THEN s
    ELSE IF SubSeq(s, 1, 1) \in WhiteSpace THEN TrimStart(SubSeq(s, 2, Len(s)))
    ELSE s

RECURSIVE TrimEnd(_)
TrimEnd(s) ==
    IF Len(s) = 0 THEN s
    ELSE IF SubSeq(s, Len(s), Len(s)) \in WhiteSpace
         THEN TrimEnd(SubSeq(s, 1, Len(s) - 1))
    ELSE s

\* String.prototype.trim
trim(s) == TrimEnd(TrimStart(s))

\* typeof x !== 'string' || x.trim().length === 0
NotNonEmptyString(x) ==
    IF x.t # "string" THEN TRUE ELSE Len(trim(x.v)) = 0

\* is-plain-object
isPlainObject(x) == x.t = "object"

\* Array.isArray
isArray(x) == x.t = "array"

\* Object.assign({}, source): the own properties of an object source, none of
\* null, undefined or a number.
ObjectAssign(source) ==
    IF source.t = "object" THEN Obj(source.v) ELSE Obj(NoProps)

-----------------------------------------------------------------------------
(* Completion records: a statement sequence either runs through or throws. *)

Normal == [thrown |-> FALSE]

Thrown(e) == [thrown |-> TRUE, error |-> e]

\* RPC.throw(message, code, data): an Error with the message, and with code
\* and data when they are truthy.
throw(message, code, data) ==
    LET e0 == [message |-> Str(message)]
        e1 == IF Truthy(code) THEN [k \in DOMAIN e0 \cup {"code"} |->
                                       IF k = "code" THEN code ELSE e0[k]]
              ELSE e0
        e2 == IF Truthy(data) THEN [k \in DOMAIN e1 \cup {"data"} |->
                                       IF k = "data" THEN data ELSE e1[k]]
              ELSE e1
    IN  Thrown(Obj(e2))

\* The TypeError of a call of a value that is not a function.
NotAFunction == Obj([message |-> Str("this.methods[call.method] is not a function")])

\* The TypeError of a property read of null or undefined.
CannotRead(x) == Obj([message |-> Str("Cannot read properties of " \o x.t)])

-----------------------------------------------------------------------------
(* The method registry: this.methods = {} is an ordinary object, so a read *)
(* this.methods[name] finds the own properties addMethod has set and, for  *)
(* a name that is no own property, what Object.prototype defines.          *)

ObjectPrototype(name) ==
    CASE name = "toString" -> Fn("Object.prototype.toString")
      [] name = "constructor" -> Fn("Object")
      [] name = "__proto__" -> Obj(NoProps)
      [] OTHER -> Undefined

\* this.methods[name]
MethodsGet(methods, name) ==
    IF name \in DOMAIN methods THEN methods[name] ELSE ObjectPrototype(name)

-----------------------------------------------------------------------------
(* RPC.assertValidCall: the five checks, in the order of the source.       *)

\* assertValidCall with the check of the method made before the check of the id.
assertValidCallMethodFirst(methods, call) ==
    IF ~isPlainObject(call)
    THEN throw("Call must be a plain object", Str("INVALID_REQUEST"), Undefined)
    ELSE IF NotNonEmptyString(Get(call, "method"))
    THEN throw("Call method must be a non-empty string",
               Str("INVALID_REQUEST"), Undefined)
    ELSE IF NotNonEmptyString(Get(call, "id")) /\ Get(call, "id") # Undefined
    THEN throw("Call ID must be a non-empty string or undefined",
               Str("INVALID_REQUEST"), Undefined)
    ELSE IF ~isPlainObject(Get(call, "params")) /\ Get(call, "params") # Undefined
    THEN throw("Call params must be a plain object or undefined",
               Str("INVALID_REQUEST"), Undefined)
    ELSE IF ~Truthy(MethodsGet(methods, Get(call, "method").v))
    THEN throw("Call method does not exist", Str("METHOD_NOT_FOUND"), Undefined)
    ELSE Normal

assertValidCall(methods, call) ==
    IF ~isPlainObject(call)
    THEN throw("Call must be a plain object", Str("INVALID_REQUEST"), Undefined)
    ELSE IF NotNonEmptyString(Get(call, "id")) /\ Get(call, "id") # Undefined
    THEN throw("Call ID must be a non-empty string or undefined",
               Str("INVALID_REQUEST"), Undefined)
    ELSE IF NotNonEmptyString(Get(call, "method"))
    THEN throw("Call method must be a non-empty string",
               Str("INVALID_REQUEST"), Undefined)
    ELSE IF ~isPlainObject(Get(call, "params")) /\ Get(call, "params") # Undefined
    THEN throw("Call params must be a plain object or undefined",
               Str("INVALID_REQUEST"), Undefined)
    ELSE IF ~Truthy(MethodsGet(methods, Get(call, "method").v))
    THEN throw("Call method does not exist", Str("METHOD_NOT_FOUND"), Undefined)
    ELSE Normal

-----------------------------------------------------------------------------
(* Promises                                                                *)

Pending == [state |-> "pending"]

Resolved(v) == [state |-> "resolved", value |-> v]

Rejected(e) == [state |-> "rejected", reason |-> e]

-----------------------------------------------------------------------------
(* RPC.call                                                                *)

ErrorKeys == {"code", "message", "data"}

\* errorOf with a code supplied when the caught value has none.
errorOfDefaultCode(error) ==
    [k \in {f \in ErrorKeys : Truthy(Get(error, f))} \cup {"code"} |->
        IF Truthy(Get(error, k)) THEN Get(error, k) ELSE Str("INTERNAL_ERROR")]

\* The error member of the response built in the catch block: each of code,
\* message and data that is truthy on the caught value.
errorOf(error) ==
    [k \in {f \in ErrorKeys : Truthy(Get(error, f))} |-> Get(error, k)]

\* catch answering every failure under the id null.
catchNullId(call, error) ==
    IF ReadThrows(error) THEN Rejected([t |-> "object", v |-> [message |->
                                  Str("Cannot read properties of " \o error.t)]])
    ELSE Resolved([id |-> Null,
                   error |-> [k \in {f \in ErrorKeys : Truthy(Get(error, f))} |->
                                 Get(error, k)]])

\* catch with the id echoed only when it is a string.
catchStringIdOnly(call, error) ==
    IF ReadThrows(error) THEN Rejected([t |-> "object", v |-> [message |->
                                  Str("Cannot read properties of " \o error.t)]])
    ELSE Resolved([id |-> IF Get(call, "id").t = "string"
                          THEN Get(call, "id") ELSE Null,
                   error |-> [k \in {f \in ErrorKeys : Truthy(Get(error, f))} |->
                                 Get(error, k)]])

\* The catch block of call: the promise call() returns after it has run.
\* Reading error.code of null or undefined raises inside the catch block, and
\* the async function's promise rejects.
catch(call, error) ==
    IF ReadThrows(error) THEN Rejected(CannotRead(error))
    ELSE Resolved([id |-> IF Truthy(call) /\ Truthy(Get(call, "id"))
                          THEN Get(call, "id") ELSE Null,
                   error |-> errorOf(error)])

\* idOf without the fallback to null.
idOfRaw(call) == Get(call, "id")

\* const id = call.id || null
idOf(call) == IF Truthy(Get(call, "id")) THEN Get(call, "id") ELSE Null

\* return with an error member next to the result.
returnWithNullError(call, result) ==
    Resolved([id |-> IF Truthy(Get(call, "id")) THEN Get(call, "id") ELSE Null,
              result |-> result, error |-> Null])

\* The return statement of the try block, once the awaited value is there.
return(call, result) == Resolved([id |-> idOf(call), result |-> result])

\* What a registered handler does when it is invoked: it returns a value,
\* returns a promise (settled later, or never), or throws a value.
RetVals == {Num(19), Undefined}

ErrMessageOnly == Obj([message |-> Str("\"b\" must be a number")])

ErrFull ==
    Obj([message |-> Str("Not allowed"), code |-> Str("FORBIDDEN"),
         data |-> Obj([user |-> Str("u1")])])

ErrFalsy == Obj([message |-> Str(""), code |-> Num(0), data |-> Null])

ThrowVals == {Null, Undefined, Str("boom"), ErrMessageOnly, ErrFull, ErrFalsy}

Behaviours ==
    {[k |-> "return", v |-> v] : v \in RetVals}
        \cup {[k |-> "promise", v |-> Undefined]}
        \cup {[k |-> "throw", v |-> e] : e \in ThrowVals}

\* A task is one invocation of call(): the raw call, the function invoked as
\* its handler and the params object handed to it (Undefined when none was
\* invoked), what that function did (did, with the value hv it returned,
\* threw, resolved or rejected with), and the promise call() returned.
NotInvoked(call, promise) ==
    [call |-> call, fn |-> Undefined, params |-> Undefined,
     request |-> Undefined, this |-> Undefined, n |-> 0,
     did |-> "none", hv |-> Undefined, promise |-> promise]

\* The instance call() was invoked on: this.
This == [t |-> "rpc"]

\* The default of the parameter: request = {}.
requestOrDefault(request) == IF request = Undefined THEN Obj(NoProps) ELSE request

\* The invocation this.methods[call.method](params, request, this): the
\* function, its three arguments, how often it has been called for this
\* call(), what it did and the promise of call() after it.
Invoked(call, fn, params, request, did, hv, promise) ==
    [call |-> call, fn |-> fn, params |-> params,
     request |-> request, this |-> This, n |-> 1,
     did |-> did, hv |-> hv, promise |-> promise]

\* The value of this.methods[call.method](params, request, this) for the
\* functions Object.prototype supplies.
BuiltinResult(fn, params, methods) ==
    IF fn.v = "Object" THEN params ELSE Str("[object Object]")

IsUserHandler(fn) ==
    fn.t = "function" /\ fn.v \notin {"Object", "Object.prototype.toString"}

\* call() up to its first await, or to its end when it does not reach one:
\* validation, the copy of params, the invocation of the handler.
callStart(methods, call, request, beh) ==
    LET valid == assertValidCall(methods, call)
        req == requestOrDefault(request)
    IN
    IF valid.thrown THEN NotInvoked(call, catch(call, valid.error))
    ELSE
      LET fn == MethodsGet(methods, Get(call, "method").v)
          params == ObjectAssign(Get(call, "params"))
      IN  IF fn.t # "function"
          THEN NotInvoked(call, catch(call, NotAFunction))
          ELSE IF ~IsUserHandler(fn)
          THEN Invoked(call, fn, params, req, "return",
                       BuiltinResult(fn, params, methods), Pending)
          ELSE IF beh.k = "throw"
          THEN Invoked(call, fn, params, req, "throw", beh.v, catch(call, beh.v))
          ELSE Invoked(call, fn, params, req, beh.k, beh.v, Pending)

\* Whether call(call) reaches a handler registered with addMethod.
InvokesUser(methods, call) ==
    /\ ~assertValidCall(methods, call).thrown
    /\ IsUserHandler(MethodsGet(methods, Get(call, "method").v))

\* What the handlers reached by call(call) may do: a call that reaches no
\* registered handler leaves nothing to choose.
BehavioursOf(m, call) ==
    IF InvokesUser(m, call) THEN Behaviours
    ELSE {[k |-> "promise", v |-> Undefined]}

-----------------------------------------------------------------------------
(* Object identity. The params object of the caller's call at index i is   *)
(* the cell <<"caller", i>> of the heap; an object created by call() at    *)
(* index i is the cell <<"copy", i>>. A cell holds the own properties.     *)

\* paramsRef with the caller's object handed on when there is one.
paramsRefAlias(i, source) ==
    IF source.t = "object" THEN <<"caller", i>> ELSE <<"copy", i>>

\* The cell of the object Object.assign({}, call.params) evaluates to: the
\* fresh target {}.
paramsRef(i, source) == <<"copy", i>>

\* What a registered handler does to the params object it is handed: it
\* deletes the key b, reassigns every other key and adds a key. (A handler
\* that writes less leaves more in place.)
HandlerWrite(props) ==
    [k \in (DOMAIN props \ {"b"}) \cup {"added"} |->
        IF k = "added" THEN Bool(TRUE) ELSE Num(0)]

\* The heap once the tasks have run to their first await: the params objects
\* of the caller, the objects handed to the functions invoked, and the
\* writes of the registered handlers among them.
heapOf(ts) ==
    LET source(i) == Get(ts[i].call, "params")
        callers == {<<"caller", i>> : i \in {j \in 1..Len(ts) : source(j).t = "object"}}
        invoked == {i \in 1..Len(ts) : ts[i].fn # Undefined}
        handed == {paramsRef(i, source(i)) : i \in invoked}
        written == {paramsRef(i, source(i)) :
                       i \in {j \in invoked : IsUserHandler(ts[j].fn)}}
        initial(a) == IF a[1] = "caller" THEN source(a[2]).v ELSE ts[a[2]].params.v
    IN  [a \in callers \cup handed |->
            IF a \in written THEN HandlerWrite(initial(a)) ELSE initial(a)]

-----------------------------------------------------------------------------
(* Promise.all over the promises of the tasks: it rejects with the reason  *)
(* of the first promise that rejects, whatever the others do later, and    *)
(* resolves with the values in index order once every promise is resolved. *)
(* all is its state before the step in which task `first` settled (for the *)
(* synchronous part of batch, the rejected task of lowest index).          *)

AllResolved(tasks) ==
    \A i \in 1..Len(tasks) : tasks[i].promise.state = "resolved"

PromiseAll(all, tasks, first) ==
    IF all.state # "pending" THEN all
    ELSE IF first \in 1..Len(tasks) /\ tasks[first].promise.state = "rejected"
    THEN Rejected(tasks[first].promise.reason)
    ELSE IF AllResolved(tasks)
    THEN Resolved(Arr([i \in 1..Len(tasks) |-> tasks[i].promise.value]))
    ELSE Pending

\* The lowest index of a rejected promise, 0 when there is none.
FirstRejected(tasks) ==
    LET R == {i \in 1..Len(tasks) : tasks[i].promise.state = "rejected"}
    IN  IF R = {} THEN 0 ELSE CHOOSE i \in R : \A j \in R : i <= j

\* The envelope batch() returns for an input that is not an array.
BatchMustBeArray ==
    [id |-> Null,
     error |-> [code |-> Str("INVALID_REQUEST"),
                message |-> Str("Batch call must be an array")]]

-----------------------------------------------------------------------------
(* Inputs                                                                  *)

\* The marker of a member the object literal leaves out.
Absent == [t |-> "absent"]

IdVals ==
    {Str("abc"), Str(""), Str(" "), Num(0), Num(1), Bool(FALSE), Null,
     Arr(<<Num(1)>>)}

MethodVals ==
    {Num(1), Str(""), Str(" \t"), Str("subtract"), Str("foobar"),
     Str("toString"), Str("__proto__")}

ParamsVals ==
    {Obj([a |-> Num(42), b |-> Num(23)]), Arr(<<Num(1), Num(2)>>), Null,
     Str("invalid")}

\* The object literal with the given members, a member left out when Absent.
CallObject(id, method, params) ==
    LET given == [id |-> id, method |-> method, params |-> params]
    IN  Obj([k \in {f \in DOMAIN given : given[f] # Absent} |-> given[k]])

\* Raw calls handed to call(): every combination of the member values, and
\* values that are no plain object.
CallInputs ==
    {CallObject(id, method, params) :
        id \in IdVals \cup {Absent}, method \in MethodVals \cup {Absent},
        params \in ParamsVals \cup {Absent}}
    \cup {Undefined, Null, Num(123), Str("abc"), Arr(<<>>)}

\* Entries of the arrays handed to batch().
BatchEntries ==
    {CallObject(Str("abc"), Str("subtract"), Obj([a |-> Num(42), b |-> Num(23)])),
     CallObject(Str("def"), Str("foobar"), Absent),
     CallObject(Arr(<<Num(1)>>), Str("subtract"), Absent)}

BatchArrays ==
    {Arr(entries) : entries \in UNION {[1..n -> BatchEntries] : n \in 0..MaxBatch}}

\* Values handed to batch() that are no array.
NonArrays ==
    {Undefined, Null, Num(123), Str("abc"),
     CallObject(Str("abc"), Str("subtract"), Absent)}

\* Values handed to batch().
BatchInputs == BatchArrays \cup NonArrays

\* Arguments of addMethod.
NameArgs == {Str("subtract"), Str(" "), Num(1)}

\* The second argument of call() and batch(): left out, or a request.
RequestArgs == {Undefined, Null, Obj([ip |-> Str("::1")])}

HandlerArgs == {Fn("h1"), Fn("h2"), Str("not a function")}

-----------------------------------------------------------------------------
(* State                                                                   *)

VARIABLES
    methods,    \* this.methods: the own properties set by addMethod
    op,         \* the call() or batch() invocation in progress, if any
    tasks,      \* the call() invocations of op, in index order
    out,        \* what op returned: a promise, or the envelope of batch
    heap,       \* the params objects of op, by cell
    last,       \* the most recent addMethod invocation and how it ended
    latest,     \* history: by name, the handler of the most recent valid
                \* registration and whether there was one before it
    options,    \* this.options
    res         \* what each adapter has done with the request of op

vars == <<methods, op, tasks, out, heap, last, latest, options, res>>

Idle == [kind |-> "none", input |-> Undefined]

NoHeap == [a \in {} |-> NoProps]

NoAdd == [kind |-> "none"]

NoRes == [f \in {} |-> Undefined]

\* RPC.defaultOptions
defaultOptions == [method |-> "POST", path |-> "/rpc"]

\* Object.assign({}, this.defaultOptions, userOptions)
applyDefaultOptions(userOptions) ==
    [k \in DOMAIN defaultOptions \cup DOMAIN userOptions |->
        IF k \in DOMAIN userOptions THEN userOptions[k] ELSE defaultOptions[k]]

\* new RPC(userOptions)
constructor(userOptions) ==
    /\ options = applyDefaultOptions(userOptions)
    /\ methods = [n \in {} |-> Undefined]
    /\ op = Idle
    /\ tasks = <<>>
    /\ out = [state |-> "none"]
    /\ heap = NoHeap
    /\ last = NoAdd
    /\ latest = [n \in {} |-> Undefined]
    /\ res = NoRes

\* new RPC()
Init == constructor([k \in {} |-> ""])

\* addMethod(name, handler): raises for a bad name or handler, otherwise sets
\* this.methods[name].
\* addMethod storing the handler before it looks at it.
addMethodAssignFirst(m, name, handler) ==
    IF NotNonEmptyString(name)
    THEN [thrown |-> TRUE, methods |-> m]
    ELSE [thrown |-> handler.t # "function",
          methods |-> [k \in DOMAIN m \cup {name.v} |->
                          IF k = name.v THEN handler ELSE m[k]]]

\* addMethod keeping the handler a name already has.
addMethodKeepFirst(m, name, handler) ==
    IF NotNonEmptyString(name) \/ handler.t # "function"
    THEN [thrown |-> TRUE, methods |-> m]
    ELSE [thrown |-> FALSE,
          methods |-> [k \in DOMAIN m \cup {name.v} |->
                          IF k \in DOMAIN m THEN m[k] ELSE handler]]

addMethod(m, name, handler) ==
    IF NotNonEmptyString(name)
    THEN [thrown |-> TRUE, methods |-> m]
    ELSE IF handler.t # "function"
    THEN [thrown |-> TRUE, methods |-> m]
    ELSE [thrown |-> FALSE,
          methods |-> [k \in DOMAIN m \cup {name.v} |->
                          IF k = name.v THEN handler ELSE m[k]]]

\* Registration is a step of its own between two operations: an operation
\* reads this.methods only in the synchronous part of call(), so a
\* registration made while handlers are awaited commutes with their steps.
AddMethodFrom(names, handlers) ==
    /\ op.kind = "none"
    /\ \E name \in names, handler \in handlers :
        /\ methods' = addMethod(methods, name, handler).methods
        /\ last' = [kind |-> "addMethod", name |-> name, handler |-> handler,
                    before |-> methods,
                    thrown |-> addMethod(methods, name, handler).thrown]
        /\ latest' = IF name.t = "string" /\ trim(name.v) # "" /\ handler.t = "function"
                     THEN [k \in DOMAIN latest \cup {name.v} |->
                              IF k = name.v
                              THEN [handler |-> handler, again |-> k \in DOMAIN latest]
                              ELSE latest[k]]
                     ELSE latest
        /\ UNCHANGED <<op, tasks, out, heap, options, res>>

AddMethod == AddMethodFrom(NameArgs, HandlerArgs)

\* addMethod is synchronous: its caller has its outcome, a return or the
\* TypeError, before it starts an operation.
AddMethodEnds ==
    /\ last.kind = "addMethod"
    /\ last' = NoAdd
    /\ UNCHANGED <<methods, op, tasks, out, heap, latest, options, res>>

\* rpc.call(call): runs to the first await; the promise returned is the task's.
Call ==
    /\ op.kind = "none"
    /\ last = NoAdd
    /\ \E call \in CallInputs, request \in RequestArgs :
      \E beh \in BehavioursOf(methods, call) :
        /\ op' = [kind |-> "call", input |-> call, request |-> request]
        /\ tasks' = <<callStart(methods, call, request, beh)>>
        /\ out' = tasks'[1].promise
        /\ heap' = heapOf(tasks')
        /\ last' = NoAdd
        /\ UNCHANGED <<methods, latest, options, res>>

\* batchNonArray with the envelope wrapped in an array.
batchNonArrayWrapped(input) ==
    [state |-> "returned", value |-> Arr(<<BatchMustBeArray>>)]

\* batch(batch) of a value that is not an array: the envelope, returned
\* synchronously.
batchNonArray(input) == [state |-> "returned", value |-> BatchMustBeArray]

BatchNonArray ==
    /\ op.kind = "none"
    /\ last = NoAdd
    /\ \E input \in BatchInputs :
        /\ ~isArray(input)
        /\ op' = [kind |-> "batch", input |-> input]
        /\ tasks' = <<>>
        /\ out' = batchNonArray(input)
        /\ heap' = NoHeap
        /\ last' = NoAdd
        /\ UNCHANGED <<methods, latest, options, res>>

\* The choices of what the handlers reached by the entries do, one per entry.
RECURSIVE BehaviourVectors(_, _)
BehaviourVectors(m, entries) ==
    IF entries = <<>> THEN {<<>>}
    ELSE {<<beh>> \o rest :
             beh \in BehavioursOf(m, Head(entries)),
             rest \in BehaviourVectors(m, Tail(entries))}

\* A batch that starts an entry only once the entries before it are settled.
batchMapWaterfall(m, entries, request, behs) ==
    [i \in 1..Len(entries) |->
        IF \A j \in 1..(i - 1) :
               callStart(m, entries[j], request, behs[j]).promise.state # "pending"
        THEN callStart(m, entries[i], request, behs[i])
        ELSE NotInvoked(entries[i], Pending)]

\* batch.map(call => this.call(call, request)): every call() runs to its first
\* await, in index order.
batchMap(m, entries, request, behs) ==
    [i \in 1..Len(entries) |-> callStart(m, entries[i], request, behs[i])]

\* rpc.batch(batch) of an array.
Batch ==
    /\ op.kind = "none"
    /\ last = NoAdd
    /\ \E input \in BatchArrays, request \in RequestArgs :
      \E behs \in BehaviourVectors(methods, input.v) :
        /\ isArray(input)
        /\ op' = [kind |-> "batch", input |-> input, request |-> request]
        /\ tasks' = batchMap(methods, input.v, requestOrDefault(request), behs)
        /\ out' = PromiseAll(Pending, tasks', FirstRejected(tasks'))
        /\ heap' = heapOf(tasks')
        /\ last' = NoAdd
        /\ UNCHANGED <<methods, latest, options, res>>

\* The promise of op after task i has settled.
Join(i, newTasks) ==
    IF op.kind = "call" \/ (op.kind = "http" /\ ~isArray(op.input.parse.v))
    THEN newTasks[1].promise
    ELSE PromiseAll(out, newTasks, i)

\* The await of a value that is no promise resumes with that value.
Resume ==
    \E i \in 1..Len(tasks) :
        /\ tasks[i].promise.state = "pending"
        /\ tasks[i].did = "return"
        /\ tasks' = [tasks EXCEPT ![i].promise = return(tasks[i].call, tasks[i].hv)]
        /\ out' = Join(i, tasks')
        /\ UNCHANGED <<methods, op, heap, last, latest, options, res>>

\* The promise a handler returned resolves: the await resumes with its value.
HandlerResolves ==
    \E i \in 1..Len(tasks), v \in RetVals :
        /\ tasks[i].promise.state = "pending"
        /\ tasks[i].did = "promise"
        /\ tasks' = [tasks EXCEPT ![i].did = "resolve", ![i].hv = v,
                                  ![i].promise = return(tasks[i].call, v)]
        /\ out' = Join(i, tasks')
        /\ UNCHANGED <<methods, op, heap, last, latest, options, res>>

\* The promise a handler returned rejects: the await throws its reason.
HandlerRejects ==
    \E i \in 1..Len(tasks), e \in ThrowVals :
        /\ tasks[i].promise.state = "pending"
        /\ tasks[i].did = "promise"
        /\ tasks' = [tasks EXCEPT ![i].did = "reject", ![i].hv = e,
                                  ![i].promise = catch(tasks[i].call, e)]
        /\ out' = Join(i, tasks')
        /\ UNCHANGED <<methods, op, heap, last, latest, options, res>>

\* The caller has the outcome of op; the instance is ready for the next one.
Finish ==
    /\ op.kind \in {"call", "batch"}
    /\ out.state \in {"resolved", "rejected", "returned"}
    /\ op' = Idle
    /\ tasks' = <<>>
    /\ out' = [state |-> "none"]
    /\ heap' = NoHeap
    /\ UNCHANGED <<methods, last, latest, options, res>>

Next ==
    \/ AddMethod
    \/ AddMethodEnds
    \/ Call
    \/ BatchNonArray
    \/ Batch
    \/ Resume
    \/ HandlerResolves
    \/ HandlerRejects
    \/ Finish

Spec == Init /\ [][Next]_vars

\* Registrations under several names, and single calls.
RegistryNames == NameArgs \cup {Str("toString")}

AddAnyMethod == AddMethodFrom(RegistryNames, HandlerArgs)

NextRegistry ==
    \/ AddAnyMethod
    \/ AddMethodEnds
    \/ Call
    \/ Resume
    \/ HandlerResolves
    \/ HandlerRejects
    \/ Finish

SpecRegistry == Init /\ [][NextRegistry]_vars

-----------------------------------------------------------------------------
(* The HTTP adapters: rpc.express() and rpc.koa()                          *)

Frameworks == {"express", "koa"}

\* The envelope sent to a request that is not of type application/json.
ContentTypeEnvelope ==
    [id |-> Null,
     error |-> [code |-> Str("INVALID_REQUEST"),
                message |-> Str("Request Content-Type must be \"application/json\"")]]

\* The envelope sent when the body is no JSON.
InvalidJsonEnvelope ==
    [id |-> Null,
     error |-> [code |-> Str("INVALID_REQUEST"),
                message |-> Str("JSON is invalid and cannot be parsed")]]

\* What parseJsonBody raises: the SyntaxError of JSON.parse, or an error of
\* the transport (here: a body over the size limit).
SyntaxError == Obj([name |-> Str("SyntaxError"), message |-> Str("Unexpected token")])

PayloadTooLarge ==
    Obj([name |-> Str("PayloadTooLargeError"), message |-> Str("request entity too large")])

\* error instanceof SyntaxError
IsSyntaxError(error) == Get(error, "name") = Str("SyntaxError")

\* What an adapter has done with a request: whether it still awaits call()
\* or batch(), the response it wrote, its use of next, and whether it read
\* the body. Neither adapter sets a status: a written body leaves with the
\* framework's 200.
NotSent == [sent |-> FALSE]

Sent(value) == [sent |-> TRUE, status |-> 200, json |-> value]

Effects(phase, body, next, error, read) ==
    [phase |-> phase, body |-> body, next |-> next, error |-> error, read |-> read]

Awaiting == Effects("await", NotSent, "none", Undefined, TRUE)

\* The catch block of the Express adapter answering every error itself.
expressCatchAnswersAll(error) ==
    Effects("done", Sent(InvalidJsonEnvelope), "none", Undefined, TRUE)

\* The catch block of the Express adapter.
expressCatch(error) ==
    IF IsSyntaxError(error)
    THEN Effects("done", Sent(InvalidJsonEnvelope), "none", Undefined, TRUE)
    ELSE Effects("done", NotSent, "next(error)", error, TRUE)

\* The catch block of the Koa adapter.
koaCatch(error) ==
    IF IsSyntaxError(error)
    THEN Effects("done", Sent(InvalidJsonEnvelope), "next()", Undefined, TRUE)
    ELSE Effects("done", NotSent, "next(error)", error, TRUE)

\* The Express adapter passing on only what differs in path and in method.
expressStartBothDiffer(opts, req) ==
    IF req.path # opts.path /\ req.method # opts.method
    THEN Effects("done", NotSent, "next()", Undefined, FALSE)
    ELSE IF ~req.json
    THEN Effects("done", Sent(ContentTypeEnvelope), "none", Undefined, FALSE)
    ELSE IF req.parse.k = "throw" THEN expressCatch(req.parse.v)
    ELSE Awaiting

\* The Express middleware up to its await of call() or batch(), or to its
\* end when it does not get there.
expressStart(opts, req) ==
    IF req.path # opts.path \/ req.method # opts.method
    THEN Effects("done", NotSent, "next()", Undefined, FALSE)
    ELSE IF ~req.json
    THEN Effects("done", Sent(ContentTypeEnvelope), "none", Undefined, FALSE)
    ELSE IF req.parse.k = "throw" THEN expressCatch(req.parse.v)
    ELSE Awaiting

\* The Koa adapter leaving a request of another content type unanswered.
koaStartSilent(opts, req) ==
    IF req.path # opts.path \/ req.method # opts.method
    THEN Effects("done", NotSent, "next()", Undefined, FALSE)
    ELSE IF ~req.json
    THEN Effects("done", NotSent, "next()", Undefined, FALSE)
    ELSE IF req.parse.k = "throw" THEN koaCatch(req.parse.v)
    ELSE Awaiting

\* The Koa middleware up to its await of call() or batch(), or to its end
\* when it does not get there.
koaStart(opts, req) ==
    IF req.path # opts.path \/ req.method # opts.method
    THEN Effects("done", NotSent, "next()", Undefined, FALSE)
    ELSE IF ~req.json
    THEN Effects("done", Sent(ContentTypeEnvelope), "next()", Undefined, FALSE)
    ELSE IF req.parse.k = "throw" THEN koaCatch(req.parse.v)
    ELSE Awaiting

\* The Express middleware calling next() once it has sent the value.
expressSettleThenNext(promise) ==
    IF promise.state = "resolved"
    THEN Effects("done", Sent(promise.value), "next()", Undefined, TRUE)
    ELSE expressCatch(promise.reason)

\* The Express middleware from the await on: response.send of the value, or
\* the catch block with the reason.
expressSettle(promise) ==
    IF promise.state = "resolved"
    THEN Effects("done", Sent(promise.value), "none", Undefined, TRUE)
    ELSE expressCatch(promise.reason)

\* The Koa middleware from the await on: context.body = the value and
\* next(), or the catch block with the reason.
koaSettle(promise) ==
    IF promise.state = "resolved"
    THEN Effects("done", Sent(promise.value), "next()", Undefined, TRUE)
    ELSE koaCatch(promise.reason)

adapterStart(f, opts, req) ==
    IF f = "express" THEN expressStart(opts, req) ELSE koaStart(opts, req)

adapterSettle(f, promise) ==
    IF f = "express" THEN expressSettle(promise) ELSE koaSettle(promise)

\* Options handed to new RPC(options).
UserOptions ==
    {[k \in {} |-> ""], [path |-> "/api"], [method |-> "PUT", path |-> "/api"]}

\* Bodies that parse: single calls, a value that is no object, and arrays.
HttpBodies ==
    BatchEntries \cup {Num(123), Arr(<<>>)}
    \cup {Arr(<<a, b>>) : a, b \in BatchEntries}

\* What await parseJsonBody(request, {strict: false}) comes to.
ParseOutcomes ==
    {[k |-> "ok", v |-> body] : body \in HttpBodies}
    \cup {[k |-> "throw", v |-> SyntaxError], [k |-> "throw", v |-> PayloadTooLarge]}

\* A request as the adapters see it: path, method, whether its content type
\* is application/json, and what reading its body will come to.
Requests ==
    [path : {"/rpc", "/api"}, method : {"POST", "PUT"}, json : BOOLEAN,
     parse : ParseOutcomes]

\* The request object the middleware hands to call() and batch(): request
\* in Express, context.request in Koa.
HttpRequest(req) == Obj([path |-> Str(req.path), method |-> Str(req.method)])

\* An instance built with options of the user's.
InitHttp == \E userOptions \in UserOptions : constructor(userOptions)

\* A request goes through the middleware of rpc.express() and, alike, through
\* the one of rpc.koa(), the handlers behaving the same towards both: each
\* runs to its end, or to its await of call(body) or batch(body). tasks are
\* the call() invocations made on the way.
Request ==
    /\ op.kind = "none"
    /\ last = NoAdd
    /\ \E req \in Requests :
      LET started == [f \in Frameworks |-> adapterStart(f, options, req)]
          reached == \E f \in Frameworks : started[f].phase = "await"
          body == req.parse.v
          entries == IF ~reached THEN <<>>
                     ELSE IF isArray(body) THEN body.v ELSE <<body>>
      IN  \E behs \in BehaviourVectors(methods, entries) :
            /\ op' = [kind |-> "http", input |-> req, request |-> HttpRequest(req)]
            /\ res' = started
            /\ tasks' = batchMap(methods, entries, HttpRequest(req), behs)
            /\ out' = IF ~reached THEN [state |-> "none"]
                      ELSE IF isArray(body)
                      THEN PromiseAll(Pending, tasks', FirstRejected(tasks'))
                      ELSE tasks'[1].promise
            /\ heap' = heapOf(tasks')
            /\ last' = NoAdd
            /\ UNCHANGED <<methods, latest, options>>

\* The await of call() or batch() in the middleware resumes.
Respond ==
    /\ op.kind = "http"
    /\ out.state \in {"resolved", "rejected"}
    /\ \E f \in Frameworks : res[f].phase = "await"
    /\ res' = [f \in Frameworks |->
                  IF res[f].phase = "await" THEN adapterSettle(f, out) ELSE res[f]]
    /\ UNCHANGED <<methods, op, tasks, out, heap, last, latest, options>>

\* Both middleware functions have returned; the instance meets the next
\* request.
RequestEnds ==
    /\ op.kind = "http"
    /\ \A f \in Frameworks : res[f].phase = "done"
    /\ op' = Idle
    /\ tasks' = <<>>
    /\ out' = [state |-> "none"]
    /\ heap' = NoHeap
    /\ res' = NoRes
    /\ UNCHANGED <<methods, last, latest, options>>

NextHttp ==
    \/ AddMethod
    \/ AddMethodEnds
    \/ Request
    \/ Resume
    \/ HandlerResolves
    \/ HandlerRejects
    \/ Respond
    \/ RequestEnds

SpecHttp == InitHttp /\ [][NextHttp]_vars

-----------------------------------------------------------------------------
(* Vocabulary of the properties                                            *)

\* The tasks of the operation in progress.
Tasks == {tasks[i] : i \in 1..Len(tasks)}

IsResolved(t) == t.promise.state = "resolved"

IsSettled(t) == t.promise.state \in {"resolved", "rejected"}

\* The handler of the task failed: it threw, or its promise rejected.
HandlerFailed(t) == t.did \in {"throw", "reject"}

\* The handler of the task succeeded: it returned a value that is no promise,
\* or its promise resolved.
HandlerSucceeded(t) == t.did = "resolve" \/ (t.did = "return" /\ IsUserHandler(t.fn))

\* A response carries exactly one of the keys result and error.
ExactlyOne(r) == ("result" \in DOMAIN r) # ("error" \in DOMAIN r)

IsCallResponse(r) == "id" \in DOMAIN r /\ ExactlyOne(r)

\* The five rules of call validation, as the specification words them.
Rule1(c) == c.t = "object"

Rule2(c) ==
    "id" \notin DOMAIN c.v \/ (c.v.id.t = "string" /\ trim(c.v.id.v) # "")

Rule3(c) ==
    "method" \in DOMAIN c.v /\ c.v.method.t = "string" /\ trim(c.v.method.v) # ""

Rule4(c) == "params" \notin DOMAIN c.v \/ c.v.params.t = "object"

\* The names registered through addMethod are the own properties of methods.
Rule5(c) == c.v.method.v \in DOMAIN methods

\* The call passes the shape rules 1 to 4.
ValidShape(c) == Rule1(c) /\ Rule2(c) /\ Rule3(c) /\ Rule4(c)

\* The number of the first rule the call violates, 0 when it violates none.
LowestViolated(c) ==
    IF ~Rule1(c) THEN 1
    ELSE IF ~Rule2(c) THEN 2
    ELSE IF ~Rule3(c) THEN 3
    ELSE IF ~Rule4(c) THEN 4
    ELSE IF ~Rule5(c) THEN 5
    ELSE 0

\* The number of rules the call violates (rules 2 to 5 read members of the
\* call, so they are counted for a plain object only).
Violations(c) ==
    IF ~Rule1(c) THEN 1
    ELSE Cardinality({k \in 2..5 :
            \/ k = 2 /\ ~Rule2(c)
            \/ k = 3 /\ ~Rule3(c)
            \/ k = 4 /\ ~Rule4(c)
            \/ k = 5 /\ (~Rule3(c) \/ ~Rule5(c))})

RuleError(k) ==
    CASE k = 1 -> [code |-> Str("INVALID_REQUEST"),
                   message |-> Str("Call must be a plain object")]
      [] k = 2 -> [code |-> Str("INVALID_REQUEST"),
                   message |-> Str("Call ID must be a non-empty string or undefined")]
      [] k = 3 -> [code |-> Str("INVALID_REQUEST"),
                   message |-> Str("Call method must be a non-empty string")]
      [] k = 4 -> [code |-> Str("INVALID_REQUEST"),
                   message |-> Str("Call params must be a plain object or undefined")]
      [] OTHER -> [code |-> Str("METHOD_NOT_FOUND"),
                   message |-> Str("Call method does not exist")]

-----------------------------------------------------------------------------
(* C1 - C10                                                                *)

\* C1: call(rawCall, request) never rejects to its caller, whatever the raw
\* call and whatever its handler does (returns, resolves, rejects or throws
\* any value, null and undefined included): the promise of every call() is
\* pending or resolved, and resolved with a CallResponse.
C1_CallNeverRejects ==
    \A t \in Tasks :
        /\ t.promise.state # "rejected"
        /\ IsResolved(t) => IsCallResponse(t.promise.value)

\* C2: for an array of n calls, batch() resolves to an array of n responses,
\* the one at index i being the outcome of the call at index i: once every
\* entry has settled, the batch has resolved with exactly those responses.
C2_BatchKeepsLengthAndOrder ==
    (op.kind = "batch" /\ isArray(op.input) /\ \A t \in Tasks : IsSettled(t)) =>
        /\ out.state = "resolved"
        /\ isArray(out.value)
        /\ Len(out.value.v) = Len(op.input.v)
        /\ \A i \in 1..Len(tasks) :
              /\ tasks[i].call = op.input.v[i]
              /\ IsResolved(tasks[i])
              /\ out.value.v[i] = tasks[i].promise.value

\* The promise call() settles to for the call of the task dispatched alone,
\* its handler doing what it did in the batch.
Alone(t) ==
    IF t.did \in {"return", "resolve"} THEN return(t.call, t.hv)
    ELSE IF t.did = "reject" THEN catch(t.call, t.hv)
    ELSE callStart(methods, t.call, t.request, [k |-> "throw", v |-> t.hv]).promise

\* C3: the failure of one entry of a batch (a validation failure, or its
\* handler throwing or rejecting with any value) never aborts the batch: the
\* batch is not rejected, it does not settle before its siblings have, and
\* every entry settles as it would dispatched alone.
C3_FailureNeverAbortsBatch ==
    (op.kind = "batch" /\ isArray(op.input) /\ Len(tasks) >= 2) =>
        /\ out.state # "rejected"
        /\ out.state # "pending" => \A t \in Tasks : IsSettled(t)
        /\ \A t \in Tasks : IsSettled(t) => t.promise = Alone(t)

\* C4: validation reports the lowest-numbered violated rule: a call that
\* violates one of the rules 1 to 4, alone or with others, is answered with
\* that rule's INVALID_REQUEST message and reaches no handler, and
\* METHOD_NOT_FOUND is reported only for a call that passes rules 1 to 4 and
\* names no registered method.
C4_LowestViolatedRuleReported ==
    \A t \in Tasks :
        /\ LowestViolated(t.call) \in 1..4 =>
              /\ IsResolved(t)
              /\ t.fn = Undefined
              /\ "error" \in DOMAIN t.promise.value
              /\ t.promise.value.error = RuleError(LowestViolated(t.call))
        /\ ( /\ IsResolved(t)
             /\ "error" \in DOMAIN t.promise.value
             /\ t.did = "none"
             /\ "code" \in DOMAIN t.promise.value.error
             /\ t.promise.value.error.code = Str("METHOD_NOT_FOUND") ) =>
              /\ LowestViolated(t.call) = 5
              /\ t.promise.value.error = RuleError(5)

\* A call that violates rules 2, 3 and 4 (and so names no method at all) has
\* been answered.
C4_Witness ==
    \E t \in Tasks :
        /\ Rule1(t.call) /\ ~Rule2(t.call) /\ ~Rule3(t.call) /\ ~Rule4(t.call)
        /\ Violations(t.call) = 4
        /\ IsResolved(t)

\* C5: every response of call(), every element of an array batch() resolves
\* to, and the envelope batch() returns for an input that is no array,
\* carries exactly one of result and error.
C5_ExactlyOneOfResultAndError ==
    /\ \A t \in Tasks : IsResolved(t) => ExactlyOne(t.promise.value)
    /\ (op.kind = "batch" /\ out.state = "resolved") =>
          \A i \in 1..Len(out.value.v) : ExactlyOne(out.value.v[i])
    /\ (op.kind = "batch" /\ out.state = "returned") => ExactlyOne(out.value)

\* A batch has resolved with a result at one index and an error at another.
C5_Witness ==
    /\ op.kind = "batch"
    /\ out.state = "resolved"
    /\ \E i, j \in 1..Len(out.value.v) :
          /\ "result" \in DOMAIN out.value.v[i]
          /\ "error" \in DOMAIN out.value.v[j]

\* C6 as the specification states it: every valid call that names a
\* registered method is answered with a result and no error, under its id or
\* under null when it has none.
C6_ValidCallYieldsResult ==
    \A t \in Tasks :
        (ValidShape(t.call) /\ Rule5(t.call) /\ IsResolved(t)) =>
            /\ "result" \in DOMAIN t.promise.value
            /\ "error" \notin DOMAIN t.promise.value
            /\ t.promise.value.id =
                  IF "id" \in DOMAIN t.call.v THEN t.call.v.id ELSE Null

\* C6, amended: a valid call that names a registered method whose handler
\* returns a value or a promise that resolves is answered with that value as
\* result, no error, and its id, or null when it has none.
C6_ValidCallYieldsResultIfHandlerSucceeds ==
    \A t \in Tasks :
        (ValidShape(t.call) /\ Rule5(t.call) /\ IsResolved(t)
            /\ HandlerSucceeded(t)) =>
            /\ DOMAIN t.promise.value = {"id", "result"}
            /\ t.promise.value.result = t.hv
            /\ t.promise.value.id =
                  IF "id" \in DOMAIN t.call.v THEN t.call.v.id ELSE Null

\* A valid call without id, whose handler returned a promise that resolved,
\* has been answered.
C6_Witness ==
    \E t \in Tasks :
        /\ ValidShape(t.call) /\ Rule5(t.call)
        /\ "id" \notin DOMAIN t.call.v
        /\ t.did = "resolve"
        /\ IsResolved(t)

\* C7: a call that passes rules 1 to 4 and names a method never registered
\* through addMethod is answered METHOD_NOT_FOUND, "Call method does not
\* exist", and no function is invoked as its handler.
C7_UnregisteredMethodNotFound ==
    \A t \in Tasks :
        (ValidShape(t.call) /\ ~Rule5(t.call)) =>
            /\ t.fn = Undefined
            /\ IsResolved(t)
            /\ "error" \in DOMAIN t.promise.value
            /\ t.promise.value.error = RuleError(5)

\* The caught value carries the field with a truthy value.
Carries(e, f) == e.t = "object" /\ f \in DOMAIN e.v /\ Truthy(e.v[f])

\* C8: in the error envelope of a failed handler, each of code, message and
\* data is present exactly when the caught value carries it with a truthy
\* value, and is then that value; nothing is supplied by default.
C8_ErrorFieldsPassedThrough ==
    \A t \in Tasks :
        (HandlerFailed(t) /\ IsResolved(t)) =>
            /\ "error" \in DOMAIN t.promise.value
            /\ \A f \in ErrorKeys :
                  /\ f \in DOMAIN t.promise.value.error <=> Carries(t.hv, f)
                  /\ f \in DOMAIN t.promise.value.error =>
                        t.promise.value.error[f] = t.hv.v[f]

\* A handler has failed with an error that has a message and no code, and the
\* envelope has the message key alone.
C8_Witness ==
    \E t \in Tasks :
        /\ HandlerFailed(t)
        /\ t.hv = ErrMessageOnly
        /\ IsResolved(t)
        /\ DOMAIN t.promise.value.error = {"message"}

\* The call is a plain object whose id is present and not a string that is
\* non-empty after trimming.
InvalidId(c) == Rule1(c) /\ ~Rule2(c)

\* C9 as the specification states it: the envelope of a plain-object call
\* with an invalid id carries the raw id unchanged.
C9_InvalidIdEchoed ==
    \A t \in Tasks :
        (InvalidId(t.call) /\ IsResolved(t)) =>
            t.promise.value.id = t.call.v.id

\* C9, amended: the envelope of a plain-object call with an invalid id carries
\* the raw id unchanged when that value is truthy, and null when it is falsy
\* (the empty string, 0, false, null); the id of an error envelope is null only when
\* the id is absent, falsy, or the input is no plain object.
C9_InvalidIdEchoedWhenTruthy ==
    \A t \in Tasks :
        /\ (InvalidId(t.call) /\ IsResolved(t)) =>
              t.promise.value.id =
                  IF Truthy(t.call.v.id) THEN t.call.v.id ELSE Null
        /\ (IsResolved(t) /\ "error" \in DOMAIN t.promise.value
              /\ t.promise.value.id = Null) =>
              \/ ~Rule1(t.call)
              \/ "id" \notin DOMAIN t.call.v
              \/ ~Truthy(t.call.v.id)

\* A call whose id is an array has been answered under that array.
C9_Witness ==
    \E t \in Tasks :
        /\ InvalidId(t.call)
        /\ t.call.v.id = Arr(<<Num(1)>>)
        /\ IsResolved(t)
        /\ t.promise.value.id = Arr(<<Num(1)>>)

\* C10: for an input that is no array, batch() returns the single envelope
\* {id: null, error: {code: "INVALID_REQUEST", message: "Batch call must be an
\* array"}}, not wrapped in an array, and makes no call and invokes no handler.
C10_NonArrayBatchEnvelope ==
    (op.kind = "batch" /\ ~isArray(op.input)) =>
        /\ out = [state |-> "returned",
                  value |-> [id |-> Null,
                             error |-> [code |-> Str("INVALID_REQUEST"),
                                        message |-> Str("Batch call must be an array")]]]
        /\ tasks = <<>>

\* batch() has been handed a plain object that would be a valid call.
C10_Witness ==
    /\ op.kind = "batch"
    /\ isPlainObject(op.input)
    /\ Get(op.input, "method") = Str("subtract")
    /\ "subtract" \in DOMAIN methods
    /\ out.state = "returned"

-----------------------------------------------------------------------------
(* C11: call() leaves the caller's call and its params as they were; the   *)
(* function it invokes is handed a fresh object holding a copy of the      *)
(* top-level keys of params (no keys when params is absent), so that what  *)
(* a handler adds, removes or reassigns stays in the copy, and no two      *)
(* entries of a batch are handed the same object.                          *)

InputCall(i) == IF op.kind = "batch" THEN op.input.v[i] ELSE op.input

CallerParams(t) == Get(t.call, "params")

C11_ParamsCopiedNeverShared ==
    op.kind \in {"call", "batch"} =>
        \A i \in 1..Len(tasks) :
            /\ tasks[i].call = InputCall(i)
            /\ CallerParams(tasks[i]).t = "object" =>
                   /\ <<"caller", i>> \in DOMAIN heap
                   /\ heap[<<"caller", i>>] = CallerParams(tasks[i]).v
            /\ tasks[i].fn # Undefined =>
                   /\ tasks[i].params =
                          Obj(IF CallerParams(tasks[i]).t = "object"
                              THEN CallerParams(tasks[i]).v ELSE NoProps)
                   /\ <<"copy", i>> \in DOMAIN heap
                   /\ IsUserHandler(tasks[i].fn) =>
                          heap[<<"copy", i>>] = HandlerWrite(tasks[i].params.v)

\* Two entries of one batch carry params, both handlers have run and written
\* to what they were handed.
C11_Witness ==
    /\ op.kind = "batch"
    /\ Len(tasks) = 2
    /\ \A i \in 1..2 :
           /\ CallerParams(tasks[i]).t = "object"
           /\ IsUserHandler(tasks[i].fn)
           /\ heap[<<"copy", i>>] # heap[<<"caller", i>>]

-----------------------------------------------------------------------------
(* C13: addMethod raises when the name is no string or is empty once       *)
(* trimmed, or when the handler is no function, and then this.methods is   *)
(* what it was before the invocation.                                      *)

BadRegistration(name, handler) ==
    \/ name.t # "string"
    \/ trim(name.v) = ""
    \/ handler.t # "function"

C13_InvalidRegistrationRaises ==
    (last.kind = "addMethod" /\ BadRegistration(last.name, last.handler)) =>
        /\ last.thrown
        /\ methods = last.before

\* A registered name, then a registration under it of what is no function.
C13_Witness ==
    /\ last.kind = "addMethod"
    /\ last.name = Str("subtract")
    /\ last.handler.t # "function"
    /\ last.thrown
    /\ "subtract" \in DOMAIN last.before

-----------------------------------------------------------------------------
(* C14: after any sequence of valid registrations a call to the name m is  *)
(* dispatched to the handler of the most recent registration of m:         *)
(* registering m again raises nothing and replaces the handler,            *)
(* registrations under other names leave m's handler alone, and no         *)
(* operation removes a name.                                               *)

C14_LastRegistrationWins ==
    /\ DOMAIN methods = DOMAIN latest
    /\ \A n \in DOMAIN latest : methods[n] = latest[n].handler
    /\ (last.kind = "addMethod" /\ ~BadRegistration(last.name, last.handler)) =>
           /\ ~last.thrown
           /\ DOMAIN last.before \subseteq DOMAIN methods
    /\ \A i \in 1..Len(tasks) :
           (ValidShape(tasks[i].call) /\ Get(tasks[i].call, "method").v \in DOMAIN latest) =>
               tasks[i].fn = latest[Get(tasks[i].call, "method").v].handler

\* subtract was registered twice, toString once with another handler, and a
\* call to subtract has reached its handler.
C14_Witness ==
    /\ op.kind = "call"
    /\ DOMAIN latest = {"subtract", "toString"}
    /\ latest["subtract"].again
    /\ latest["subtract"].handler = Fn("h2")
    /\ latest["toString"].handler = Fn("h1")
    /\ Get(tasks[1].call, "method") = Str("subtract")
    /\ tasks[1].fn = Fn("h2")

-----------------------------------------------------------------------------
(* C17: batch() has invoked the handler of every entry that passes         *)
(* validation before it waits for any of them: whatever the handlers of    *)
(* the other entries are doing, and however long they take, the function   *)
(* of entry j has been called once batch() has returned its promise.       *)

PassesValidation(t) ==
    /\ ~assertValidCall(methods, t.call).thrown
    /\ MethodsGet(methods, Get(t.call, "method").v).t = "function"

C17_BatchStartsEveryHandler ==
    (op.kind = "batch" /\ isArray(op.input)) =>
        \A j \in 1..Len(tasks) :
            PassesValidation(tasks[j]) =>
                /\ tasks[j].fn = MethodsGet(methods, Get(tasks[j].call, "method").v)
                /\ tasks[j].did # "none"

\* The handler of the first entry has not settled; the one of the second
\* entry has been invoked and has already been answered.
C17_Witness ==
    /\ op.kind = "batch"
    /\ Len(tasks) = 2
    /\ tasks[1].did = "promise"
    /\ tasks[1].promise.state = "pending"
    /\ PassesValidation(tasks[2])
    /\ IsUserHandler(tasks[2].fn)
    /\ tasks[2].promise.state = "resolved"

-----------------------------------------------------------------------------
(* C18: the id of the envelope that answers a call failing validation.     *)

FailsValidation(t) == assertValidCall(methods, t.call).thrown

CarriesId(c) == c.t = "object" /\ "id" \in DOMAIN c.v

\* C18 as the specification states it: the id of the envelope is the id of
\* the raw call when the raw call is a mapping carrying a string id, and
\* null in every other case (no mapping, no id, an id that is no string).
C18_ValidationFailureIdStringOrNull ==
    \A t \in Tasks :
        (FailsValidation(t) /\ IsResolved(t)) =>
            t.promise.value.id =
                IF CarriesId(t.call) /\ Get(t.call, "id").t = "string"
                THEN Get(t.call, "id") ELSE Null

\* C18, amended: when validation fails the id of the envelope is the id of
\* the raw call when the raw call is a mapping carrying a truthy id, of any
\* type, and null in every other case (no mapping, no id, or a falsy id:
\* the empty string, 0, false, null).
C18_ValidationFailureIdTruthyOrNull ==
    \A t \in Tasks :
        FailsValidation(t) =>
            /\ IsResolved(t)
            /\ "error" \in DOMAIN t.promise.value
            /\ t.promise.value.id =
                   IF CarriesId(t.call) /\ Truthy(Get(t.call, "id"))
                   THEN Get(t.call, "id") ELSE Null

\* A call with the id 1 and no method has been answered under the id 1.
C18_Witness ==
    /\ op.kind = "call"
    /\ FailsValidation(tasks[1])
    /\ IsResolved(tasks[1])
    /\ Get(tasks[1].call, "id") = Num(1)
    /\ Get(tasks[1].call, "method") = Undefined
    /\ tasks[1].promise.value.id = Num(1)

-----------------------------------------------------------------------------
(* C19: batch() on an array resolves exactly when every handler it invoked *)
(* has settled: once every entry's handler has returned, resolved, thrown  *)
(* or rejected and its call() has been answered, the batch has resolved,   *)
(* and as long as one handler has not settled the batch delivers nothing.  *)
(* Stated over finite runs: the promise of batch() is settled by the step  *)
(* that settles the last call(), so "eventually resolves" is "is resolved  *)
(* as soon as no call() is pending".                                       *)
C19_BatchResolvesIffHandlersSettle ==
    (op.kind = "batch" /\ isArray(op.input)) =>
        /\ (\A t \in Tasks : t.did # "promise" /\ t.promise.state # "pending") =>
               out.state = "resolved"
        /\ (\E t \in Tasks : t.did = "promise") => out.state = "pending"

-----------------------------------------------------------------------------
(* Claims about the adapters                                               *)

\* The request in progress is for the configured path and method.
Matches == op.input.path = options.path /\ op.input.method = options.method

\* The request in progress reaches the RPC logic: it matches, is of type
\* application/json and its body parses.
ReachesRpc ==
    /\ op.kind = "http"
    /\ Matches
    /\ op.input.json
    /\ op.input.parse.k = "ok"

\* A CallResponse, or for a batch a list of them.
IsResponseBody(json) ==
    IF isArray(op.input.parse.v)
    THEN \A i \in 1..Len(json.v) : IsCallResponse(json.v[i])
    ELSE IsCallResponse(json)

\* C12: a request that reaches the RPC logic is answered by both adapters
\* with a success status and a CallResponse body (a list of them for a
\* batch); no failure inside call() or batch(), a handler's included, is
\* handed to next(error).
C12_RpcFailuresNeverForwarded ==
    ReachesRpc =>
        \A f \in Frameworks :
            /\ res[f].next # "next(error)"
            /\ res[f].phase = "done" =>
                   /\ res[f].body.sent
                   /\ res[f].body.status = 200
                   /\ IsResponseBody(res[f].body.json)

\* C15: a request whose path or method is not the configured one is passed
\* to next() by each adapter, which writes no response, reads no body and
\* has no call() made and no handler invoked.
C15_MismatchPassesThrough ==
    (op.kind = "http" /\ ~Matches) =>
        /\ tasks = <<>>
        /\ \A f \in Frameworks :
               res[f] = Effects("done", NotSent, "next()", Undefined, FALSE)

\* A JSON request for the configured path /api by another method, carrying
\* a call to a registered method, has been passed on.
C15_Witness ==
    /\ op.kind = "http"
    /\ options.path = "/api"
    /\ op.input.path = "/api"
    /\ op.input.method # options.method
    /\ op.input.json
    /\ op.input.parse.k = "ok"
    /\ InvokesUser(methods, op.input.parse.v)
    /\ res["express"].next = "next()"
    /\ res["koa"].next = "next()"

\* C16: for every request to the configured path and method, whatever its
\* content type and body, the two adapters are as far as each other and
\* have written the same response: the same body under the same status, or
\* both none.
C16_AdaptersWriteTheSame ==
    (op.kind = "http" /\ Matches) =>
        /\ res["express"].phase = res["koa"].phase
        /\ res["express"].body = res["koa"].body

\* Both adapters have answered a batch of two entries, one with a result and
\* one with an error.
C16_Witness ==
    /\ ReachesRpc
    /\ \A f \in Frameworks :
           /\ res[f].phase = "done"
           /\ res[f].body.sent
           /\ isArray(op.input.parse.v)
           /\ Len(res[f].body.json.v) = 2
           /\ "result" \in DOMAIN res[f].body.json.v[1]
           /\ "error" \in DOMAIN res[f].body.json.v[2]

\* C20: for a request to the configured path and method each adapter sorts
\* failures as follows: a body that is no JSON is answered with the
\* envelope "JSON is invalid and cannot be parsed" under a success status;
\* any other failure of reading the body goes to next(error) and no
\* envelope is written; a request of another content type is answered with
\* the Content-Type envelope, its body is not read and no handler is
\* invoked.
C20_AdapterFailuresSorted ==
    (op.kind = "http" /\ Matches) =>
        \A f \in Frameworks :
            /\ (op.input.json /\ op.input.parse.k = "throw"
                    /\ IsSyntaxError(op.input.parse.v)) =>
                   /\ res[f].body = Sent(InvalidJsonEnvelope)
                   /\ res[f].next # "next(error)"
                   /\ tasks = <<>>
            /\ (op.input.json /\ op.input.parse.k = "throw"
                    /\ ~IsSyntaxError(op.input.parse.v)) =>
                   /\ res[f].body = NotSent
                   /\ res[f].next = "next(error)"
                   /\ res[f].error = op.input.parse.v
                   /\ tasks = <<>>
            /\ ~op.input.json =>
                   /\ res[f].body = Sent(ContentTypeEnvelope)
                   /\ ~res[f].read
                   /\ res[f].next # "next(error)"
                   /\ tasks = <<>>

\* Reading the body of a JSON request failed with an error of the
\* transport, which both adapters have handed to next.
C20_Witness ==
    /\ op.kind = "http"
    /\ Matches
    /\ op.input.json
    /\ op.input.parse = [k |-> "throw", v |-> PayloadTooLarge]
    /\ \A f \in Frameworks :
           res[f].next = "next(error)" /\ res[f].error = PayloadTooLarge

-----------------------------------------------------------------------------
(* C21: a handler is invoked only for a call that passes all five          *)
(* validation rules, at most once for each call() and so for each entry of *)
(* a batch, and with the arguments (the copy of params, the request        *)
(* context given to call() or batch(), the instance the call was made on); *)
(* a call that fails one of the rules has no handler invoked.              *)

\* The request context of the operation in progress: the one given, the
\* empty object when none was given.
GivenRequest == IF op.request = Undefined THEN Obj(NoProps) ELSE op.request

PassesFiveRules(c) == ValidShape(c) /\ Rule5(c)

C21_HandlerInvokedOnlyWhenValid ==
    \A i \in 1..Len(tasks) :
        /\ tasks[i].n <= 1
        /\ (tasks[i].n = 0) = (tasks[i].fn = Undefined)
        /\ ~PassesFiveRules(tasks[i].call) => tasks[i].n = 0
        /\ tasks[i].n = 1 =>
               /\ PassesFiveRules(tasks[i].call)
               /\ tasks[i].fn = methods[Get(tasks[i].call, "method").v]
               /\ tasks[i].params =
                      Obj(IF CallerParams(tasks[i]).t = "object"
                          THEN CallerParams(tasks[i]).v ELSE NoProps)
               /\ tasks[i].request = GivenRequest
               /\ tasks[i].this = This

-----------------------------------------------------------------------------
(* C22: when an adapter passes control on.                                 *)

\* C22 as the specification states it: an adapter that has written an RPC
\* response does not also pass control to the next handler of the chain;
\* either adapter passes control on only when path or method do not match,
\* or to forward a failure that is no syntax failure.
C22_NoNextAfterResponse ==
    op.kind = "http" =>
        \A f \in Frameworks :
            /\ res[f].body.sent => res[f].next = "none"
            /\ res[f].next = "next()" => ~Matches
            /\ res[f].next = "next(error)" =>
                   Matches /\ ~IsSyntaxError(res[f].error)

\* C22, amended: the Express adapter, once it has written an RPC response,
\* does not pass control on: it calls next() only when path or method do
\* not match and next(error) only to forward a failure that is no syntax
\* failure. The Koa adapter passes control on whenever it returns: next()
\* when path or method do not match and also after every RPC response it
\* has written, next(error) without a response to forward a failure that
\* is no syntax failure. Neither writes a response and forwards an error.
C22_NextAfterResponseInKoaOnly ==
    op.kind = "http" =>
        /\ res["express"].body.sent => res["express"].next = "none"
        /\ res["express"].next = "next()" => ~Matches
        /\ res["koa"].phase = "done" => res["koa"].next # "none"
        /\ res["koa"].body.sent => (Matches /\ res["koa"].next = "next()")
        /\ (res["koa"].next = "next()" /\ ~res["koa"].body.sent) => ~Matches
        /\ \A f \in Frameworks :
               /\ res[f].next = "next(error)" =>
                      /\ Matches
                      /\ ~res[f].body.sent
                      /\ ~IsSyntaxError(res[f].error)
               /\ (res[f].phase = "done" /\ ~Matches) =>
                      (res[f].next = "next()" /\ ~res[f].body.sent)

\* Both adapters have answered a call with its result; Koa has gone on to
\* next(), Express has not.
C22_Witness ==
    /\ ReachesRpc
    /\ ~isArray(op.input.parse.v)
    /\ \A f \in Frameworks :
           /\ res[f].phase = "done"
           /\ res[f].body.sent
           /\ "result" \in DOMAIN res[f].body.json
    /\ res["express"].next = "none"
    /\ res["koa"].next = "next()"

====
